---- MODULE Spec2Model ----
(***************************************************************************)
(* File-based instance registry of ida-pro-mcp                             *)
(* (src/src/ida_pro_mcp/instance_registry.py).                             *)
(*                                                                         *)
(* The registry directory is a map from file name (one per instance id)    *)
(* to file content.  Spec runs every registry function as one atomic       *)
(* step; SpecPort adds the port allocator and the OS bind table; the         *)
(* specifications that start from ConcInit split refresh, register, list   *)
(* and cleanup into their file-system steps and interleave two threads;    *)
(* SpecHeartbeat and SpecPlugin add the HeartbeatThread object and the     *)
(* plugin's start and stop sequences (src/src/ida_pro_mcp/ida_mcp.py).     *)
(***************************************************************************)
EXTENDS Integers, Sequences, FiniteSets, TLC

VARIABLES
    store,      \* REGISTRY_DIR: instance id -> content of <id>.json
    now,        \* time.time()
    alive,      \* pids for which os.kill(pid, 0) succeeds
    osBusy,     \* ports on which socket.bind raises OSError
    lastOp,     \* the call that just returned: name, arguments, result
    th,         \* per thread, the registry call in progress and its locals
    hbMax,      \* per id, largest timestamp persisted since the file was created
    hb,         \* the HeartbeatThread object of the process and the threads it started
    plugin      \* the MCP plugin object of the process (ida_mcp.py)

vars == <<store, now, alive, osBusy, lastOp, th, hbMax, hb, plugin>>

(***************************************************************************)
(* Program constants                                                       *)
(***************************************************************************)
PORT_RANGE_START == 13337
PORT_RANGE_END == 13437
STALE_TIMEOUT == 60

(***************************************************************************)
(* Bounds of the model                                                     *)
(***************************************************************************)
\* The clock advances by 1 s or by STALE_TIMEOUT s; at most MaxTicks advances.
MaxTicks == 2

Ids == {"a", "b"}
Pids == {1, 2}

\* Strings that are compared case-insensitively are sequences of characters.
LowerChar(c) ==
    CASE c = "L" -> "l"
      [] c = "S" -> "s"
      [] c = "H" -> "h"
      [] OTHER -> c

\* str.lower()
StrLower(s) == [k \in DOMAIN s |-> LowerChar(s[k])]

\* Names find_instance_by_binary is queried with
QueryNames == { <<"l", "S">>, <<"l", "s">>, <<"S", "H">> }

\* Arguments (host, port, binary_name, binary_path) callers register with.
RegArgs ==
    { [host |-> "127.0.0.1", port |-> PORT_RANGE_START,
       binary_name |-> <<"L", "s">>, binary_path |-> "/bin/Ls"],
      [host |-> "127.0.0.1", port |-> PORT_RANGE_START + 1,
       binary_name |-> <<"l", "s">>, binary_path |-> ""],
      [host |-> "0.0.0.0", port |-> PORT_RANGE_START,
       binary_name |-> <<"s", "h">>, binary_path |-> "/bin/sh"] }

(***************************************************************************)
(* File contents                                                           *)
(***************************************************************************)
NoFile == [kind |-> "nofile"]          \* the path does not exist
Truncated == [kind |-> "truncated"]    \* exists, empty: json.load raises JSONDecodeError
None == [kind |-> "None"]              \* Python's None

\* InstanceInfo.__init__
InstanceInfo(instance_id, host, port, binary_name, binary_path, pid, timestamp) ==
    [kind |-> "info", instance_id |-> instance_id, host |-> host, port |-> port,
     binary_name |-> binary_name, binary_path |-> binary_path, pid |-> pid,
     timestamp |-> timestamp]

\* InstanceInfo.to_dict, as json.dump writes it to the file
ToDict(info) ==
    [kind |-> "json", instance_id |-> info.instance_id, host |-> info.host,
     port |-> info.port, binary_name |-> info.binary_name,
     binary_path |-> info.binary_path, pid |-> info.pid,
     timestamp |-> info.timestamp]

\* Mutant of FromDict: binary_path is not read from the file
FromDict_NoPath(data) ==
    InstanceInfo(data.instance_id, data.host, data.port, data.binary_name,
                 "", data.pid, data.timestamp)

\* InstanceInfo.from_dict on the dictionary json.load returns
FromDict(data) ==
    InstanceInfo(data.instance_id, data.host, data.port, data.binary_name,
                 data.binary_path, data.pid, data.timestamp)

\* json.load followed by InstanceInfo.from_dict succeeds
Parsable(f) == f.kind = "json"

\* Path.exists / what glob("*.json") yields
Exists(f) == f.kind # "nofile"

\* Mutant of InstanceFile: one file name for every instance id
InstanceFile_Fixed(instance_id) == "a"

\* _instance_file: the file an instance id is stored under
InstanceFile(instance_id) == instance_id

\* REGISTRY_DIR.glob("*.json")
Glob(st) == {i \in Ids : Exists(st[i])}

\* Mutant of IsStale: an age of exactly STALE_TIMEOUT counts as stale
IsStale_NonStrict(info, t) == (t - info.timestamp) >= STALE_TIMEOUT

\* InstanceInfo.is_stale at time t
IsStale(info, t) == (t - info.timestamp) > STALE_TIMEOUT

\* InstanceInfo.is_alive
IsAlive(info, living) == info.pid \in living

(***************************************************************************)
(* The registry functions as pure functions of the directory               *)
(***************************************************************************)
\* register_instance: the InstanceInfo it builds and returns
RegisterInfo(instance_id, a, pid, t) ==
    InstanceInfo(instance_id, a.host, a.port, a.binary_name, a.binary_path, pid, t)

\* register_instance: the directory after open(filepath, "w") and json.dump
RegisterStore(st, instance_id, a, pid, t) ==
    [st EXCEPT ![InstanceFile(instance_id)] = ToDict(RegisterInfo(instance_id, a, pid, t))]

\* Mutant of UnregisterStore: every registration file is unlinked
UnregisterStore_All(st, instance_id) == [i \in Ids |-> NoFile]

\* unregister_instance: filepath.unlink(missing_ok=True)
UnregisterStore(st, instance_id) ==
    [st EXCEPT ![InstanceFile(instance_id)] = NoFile]

\* Mutant of RefreshData: the owner pid is rewritten too
RefreshData_Pid(data, t) == [data EXCEPT !.timestamp = t, !.pid = 1]

\* refresh_instance: data["timestamp"] = time.time()
RefreshData(data, t) == [data EXCEPT !.timestamp = t]

\* refresh_instance: its return value
RefreshRet(st, instance_id) == Parsable(st[InstanceFile(instance_id)])

\* refresh_instance: the directory after the call
RefreshStore(st, instance_id, t) ==
    IF Parsable(st[InstanceFile(instance_id)])
    THEN [st EXCEPT ![InstanceFile(instance_id)] = RefreshData(@, t)]
    ELSE st

\* Mutant of ListReaps: the owner's liveness is not consulted
ListReaps_StaleOnly(info, include_stale, t, living) ==
    ~include_stale /\ IsStale(info, t)

\* list_instances: the test that unlinks a parsed registration
ListReaps(info, include_stale, t, living) ==
    ~include_stale /\ IsStale(info, t) /\ ~IsAlive(info, living)

\* Mutant of ListKept: include_stale is not consulted
ListKept_AlwaysReaps(st, include_stale, t, living) ==
    {i \in Glob(st) : Parsable(st[i])
                        /\ ~ListReaps(FromDict(st[i]), FALSE, t, living)}

\* list_instances: the files whose InstanceInfo is appended to the result
ListKept(st, include_stale, t, living) ==
    {i \in Glob(st) : Parsable(st[i])
                        /\ ~ListReaps(FromDict(st[i]), include_stale, t, living)}

\* list_instances: the directory after the call
ListStore(st, include_stale, t, living) ==
    [i \in Ids |-> IF i \in Glob(st) /\ i \notin ListKept(st, include_stale, t, living)
                   THEN NoFile ELSE st[i]]

\* The orders in which glob may yield a set of files
Orders(S) ==
    {o \in [1..Cardinality(S) -> S] : \A j, k \in 1..Cardinality(S) : o[j] = o[k] => j = k}

\* list_instances: the list it returns when glob yields the files in `order`
ListResult(st, order, include_stale, t, living) ==
    LET kept == SelectSeq(order, LAMBDA i : i \in ListKept(st, include_stale, t, living))
    IN [k \in 1..Len(kept) |-> FromDict(st[kept[k]])]

\* Mutant of BinaryMatches: the query is not lowered
BinaryMatches_RawQuery(info, binary_name) == StrLower(info.binary_name) = binary_name

\* find_instance_by_binary: the comparison of one listed instance with the query
BinaryMatches(info, binary_name) == StrLower(info.binary_name) = StrLower(binary_name)

\* find_instance_by_binary: first match in the list, or None
FindByBinary(instances, binary_name) ==
    LET hits == {k \in 1..Len(instances) : BinaryMatches(instances[k], binary_name)}
    IN IF hits = {} THEN None
       ELSE instances[CHOOSE k \in hits : \A j \in hits : k <= j]

\* find_instance_by_id
FindById(st, instance_id) ==
    IF ~Exists(st[InstanceFile(instance_id)]) THEN None
    ELSE IF Parsable(st[InstanceFile(instance_id)])
         THEN FromDict(st[InstanceFile(instance_id)])
         ELSE None

\* cleanup_stale_instances: the files it unlinks
CleanupRemoves(st, t, living) ==
    {i \in Glob(st) : ~Parsable(st[i])
                        \/ (IsStale(FromDict(st[i]), t) /\ ~IsAlive(FromDict(st[i]), living))}

\* cleanup_stale_instances: the directory after the call
CleanupStore(st, t, living) ==
    [i \in Ids |-> IF i \in CleanupRemoves(st, t, living) THEN NoFile ELSE st[i]]

\* cleanup_stale_instances: the count it returns
CleanupRet(st, t, living) == Cardinality(CleanupRemoves(st, t, living))

(***************************************************************************)
(* Environment: the clock and the processes                                *)
(***************************************************************************)
Threads == {"t1", "t2"}
Idle == [pc |-> "idle"]

\* self._thread is None
NoThread == "none"

\* HeartbeatThread.__init__: no thread, the stop event clear.  task is the
\* position of each thread in _run ("unborn" before Thread.start()); since is
\* the time its wait or the join began; after counts the refresh_instance
\* calls a thread began after the stop event was set; asleep tells whether
\* the thread was in wait() when the event was set; gone tells whether the
\* thread's last refresh_instance call began after the registration was
\* deleted; late tells whether the thread was started when the stop event was
\* already set; stopped tells whether a stop() call has returned.
NewHeartbeat ==
    [thread |-> NoThread, stop_event |-> FALSE, joining |-> FALSE, join_since |-> 0,
     task |-> [t \in Threads |-> "unborn"],
     since |-> [t \in Threads |-> 0],
     after |-> [t \in Threads |-> 0],
     asleep |-> [t \in Threads |-> FALSE],
     gone |-> [t \in Threads |-> FALSE],
     late |-> [t \in Threads |-> FALSE],
     deleted |-> FALSE, stopped |-> FALSE]

\* MCP.init: self.mcp = None, self.port = 0, self.heartbeat = None
\* (registry tells whether the instance_registry module can be imported)
PluginInit ==
    [pc |-> "loaded", mcp |-> FALSE, port |-> 0, heartbeat |-> FALSE, registry |-> TRUE]

\* Number of clock advances that lead to time t
TickCount(t) == (t \div STALE_TIMEOUT) + (t % STALE_TIMEOUT)

\* time passes
Tick ==
    /\ TickCount(now) < MaxTicks
    /\ \E d \in {1, STALE_TIMEOUT} : now' = now + d
    /\ lastOp' = [op |-> "tick"]
    /\ UNCHANGED <<store, alive, osBusy, th, hbMax, hb, plugin>>

\* a process exits: os.kill(pid, 0) raises ProcessLookupError from now on
Kill ==
    /\ \E p \in alive : alive' = alive \ {p}
    /\ lastOp' = [op |-> "kill"]
    /\ UNCHANGED <<store, now, osBusy, th, hbMax, hb, plugin>>

(***************************************************************************)
(* Spec: every registry function is one step                               *)
(***************************************************************************)
Init ==
    /\ store = [i \in Ids |-> NoFile]
    /\ now = 0
    /\ alive = Pids
    /\ osBusy = {}
    /\ lastOp = [op |-> "init"]
    /\ th = [t \in Threads |-> Idle]
    /\ hbMax = [i \in Ids |-> 0]
    /\ hb = NewHeartbeat
    /\ plugin = PluginInit

\* register_instance called by process p
Register ==
    \E p \in alive, i \in Ids, a \in RegArgs :
        /\ store' = RegisterStore(store, i, a, p, now)
        /\ lastOp' = [op |-> "register", id |-> i, args |-> a, caller |-> p,
                      t |-> now, ret |-> RegisterInfo(i, a, p, now)]
        /\ UNCHANGED <<now, alive, osBusy, th, hbMax, hb, plugin>>

\* unregister_instance
Unregister ==
    \E i \in Ids :
        /\ store' = UnregisterStore(store, i)
        /\ lastOp' = [op |-> "unregister", id |-> i, ret |-> TRUE]
        /\ UNCHANGED <<now, alive, osBusy, th, hbMax, hb, plugin>>

\* refresh_instance
Refresh ==
    \E i \in Ids :
        /\ store' = RefreshStore(store, i, now)
        /\ lastOp' = [op |-> "refresh", id |-> i, ret |-> RefreshRet(store, i)]
        /\ UNCHANGED <<now, alive, osBusy, th, hbMax, hb, plugin>>

\* list_instances
List ==
    \E include_stale \in BOOLEAN, order \in Orders(Glob(store)) :
        /\ store' = ListStore(store, include_stale, now, alive)
        /\ lastOp' = [op |-> "list", include_stale |-> include_stale,
                      ret |-> ListResult(store, order, include_stale, now, alive)]
        /\ UNCHANGED <<now, alive, osBusy, th, hbMax, hb, plugin>>

\* find_instance_by_binary
FindBinary ==
    \E name \in QueryNames, order \in Orders(Glob(store)) :
        /\ store' = ListStore(store, FALSE, now, alive)
        /\ lastOp' = [op |-> "find_by_binary", name |-> name,
                      ret |-> FindByBinary(ListResult(store, order, FALSE, now, alive), name)]
        /\ UNCHANGED <<now, alive, osBusy, th, hbMax, hb, plugin>>

\* Mutant of FindId: the liveness filter of list_instances is applied
FindId_Filtering ==
    \E i \in Ids :
        /\ store' = [store EXCEPT ![i] =
                        IF Parsable(@) /\ ListReaps(FromDict(@), FALSE, now, alive)
                        THEN NoFile ELSE @]
        /\ lastOp' = [op |-> "find_by_id", id |-> i,
                      ret |-> IF Parsable(store[i])
                                 /\ ListReaps(FromDict(store[i]), FALSE, now, alive)
                              THEN None ELSE FindById(store, i),
                      prev |-> IF lastOp.op = "register" /\ lastOp.id = i
                               THEN lastOp ELSE None]
        /\ UNCHANGED <<now, alive, osBusy, th, hbMax, hb, plugin>>

\* find_instance_by_id
FindId ==
    \E i \in Ids :
        /\ lastOp' = [op |-> "find_by_id", id |-> i, ret |-> FindById(store, i),
                      \* the register_instance call of i this call directly follows, if any
                      prev |-> IF lastOp.op = "register" /\ lastOp.id = i
                               THEN lastOp ELSE None]
        /\ UNCHANGED <<store, now, alive, osBusy, th, hbMax, hb, plugin>>

\* cleanup_stale_instances
Cleanup ==
    /\ store' = CleanupStore(store, now, alive)
    /\ lastOp' = [op |-> "cleanup", ret |-> CleanupRet(store, now, alive)]
    /\ UNCHANGED <<now, alive, osBusy, th, hbMax, hb, plugin>>

Next ==
    \/ Tick
    \/ Kill
    \/ Register
    \/ Unregister
    \/ Refresh
    \/ List
    \/ FindBinary
    \/ FindId
    \/ Cleanup

Spec == Init /\ [][Next]_vars

(***************************************************************************)
(* SpecPort: the port allocator over the registry and the OS bind table    *)
(***************************************************************************)
\* Sets of ports some other socket holds, so that bind raises OSError
BusySets ==
    { {},
      {PORT_RANGE_START},
      PORT_RANGE_START..(PORT_RANGE_END - 2),
      PORT_RANGE_START..(PORT_RANGE_END - 1) }

\* find_available_port: registered_ports = {inst.port for inst in list_instances()}
RegisteredPorts(instances) == {instances[k].port : k \in DOMAIN instances}

\* Mutant of PortSkipped: the registry snapshot is not consulted
PortSkipped_NoRegistry(port, registered_ports) == FALSE

\* find_available_port: `if port in registered_ports: continue`
PortSkipped(port, registered_ports) == port \in registered_ports

\* find_available_port: one iteration of the loop, for `port`
ProbePort(port, registered_ports, busy) ==
    IF PortSkipped(port, registered_ports)
    THEN [found |-> FALSE, port |-> port, scanned |-> 1, binds |-> 0]
    ELSE IF port \notin busy
         THEN [found |-> TRUE, port |-> port, scanned |-> 1, binds |-> 1]
         ELSE [found |-> FALSE, port |-> port, scanned |-> 1, binds |-> 1]

\* find_available_port: the loop over range(lo, hi), which is the loop over
\* range(lo, mid) followed, unless that one returned, by the loop over
\* range(mid, hi); scanned counts the iterations made, binds the bind attempts
RECURSIVE ScanPorts(_, _, _, _)
ScanPorts(lo, hi, registered_ports, busy) ==
    IF lo >= hi
    THEN [found |-> FALSE, port |-> lo, scanned |-> 0, binds |-> 0]
    ELSE IF hi = lo + 1
         THEN ProbePort(lo, registered_ports, busy)
         ELSE LET mid == (lo + hi) \div 2
                  head == ScanPorts(lo, mid, registered_ports, busy)
                  tail == ScanPorts(mid, hi, registered_ports, busy)
              IN IF head.found
                 THEN head
                 ELSE [tail EXCEPT !.scanned = @ + head.scanned,
                                   !.binds = @ + head.binds]

\* find_available_port: `return port`, or the RuntimeError after the loop
ScanResult(r) ==
    IF r.found
    THEN [kind |-> "port", port |-> r.port, scanned |-> r.scanned, binds |-> r.binds]
    ELSE [kind |-> "RuntimeError", scanned |-> r.scanned, binds |-> r.binds]

\* Mutant of FindAvailablePortRet: the scan starts one port too high
FindAvailablePortRet_FromSecond(instances, busy) ==
    ScanResult(ScanPorts(PORT_RANGE_START + 1, PORT_RANGE_END,
                         RegisteredPorts(instances), busy))

\* find_available_port: the port it returns, or the RuntimeError it raises
FindAvailablePortRet(instances, busy) ==
    ScanResult(ScanPorts(PORT_RANGE_START, PORT_RANGE_END,
                         RegisteredPorts(instances), busy))

\* other programs bind or release ports
OsChange ==
    /\ \E b \in BusySets \ {osBusy} : osBusy' = b
    /\ lastOp' = [op |-> "oschange"]
    /\ UNCHANGED <<store, now, alive, th, hbMax, hb, plugin>>

\* find_available_port
FindAvailablePort ==
    \E host \in {"127.0.0.1"}, order \in Orders(Glob(store)) :
        /\ store' = ListStore(store, FALSE, now, alive)
        /\ lastOp' = [op |-> "find_available_port", host |-> host,
                      ret |-> FindAvailablePortRet(
                                  ListResult(store, order, FALSE, now, alive), osBusy)]
        /\ UNCHANGED <<now, alive, osBusy, th, hbMax, hb, plugin>>

NextPort ==
    \/ Tick
    \/ Kill
    \/ Register
    \/ OsChange
    \/ FindAvailablePort

SpecPort == Init /\ [][NextPort]_vars

(***************************************************************************)
(* The registry functions split into their file-system steps.  Two threads *)
(* of the process OwnPid call them concurrently.  A file opened for        *)
(* writing is empty from open(filepath, "w") until json.dump's data is     *)
(* flushed on close; a write through a handle whose file was unlinked      *)
(* meanwhile reaches no directory entry.  Threads take steps only while    *)
(* their process is alive.                                                 *)
(***************************************************************************)
\* os.getpid() of the process the two threads belong to
OwnPid == 1

\* the instance id that process registered and heartbeats
HeartbeatId == "a"

\* The directory after two processes registered one instance each
ConcInit ==
    /\ store = [i \in Ids |->
                  IF i = HeartbeatId
                  THEN ToDict(RegisterInfo(i, CHOOSE a \in RegArgs : a.binary_path = "/bin/Ls",
                                           OwnPid, 0))
                  ELSE ToDict(RegisterInfo(i, CHOOSE a \in RegArgs : a.binary_path = "/bin/sh",
                                           CHOOSE p \in Pids : p # OwnPid, 0))]
    /\ now = 0
    /\ alive = Pids
    /\ osBusy = {}
    /\ lastOp = [op |-> "init"]
    /\ th = [t \in Threads |-> Idle]
    /\ hbMax = [i \in Ids |-> 0]
    /\ hb = NewHeartbeat
    /\ plugin = PluginInit

Max(x, y) == IF x >= y THEN x ELSE y

\* Path.unlink(missing_ok=True): open handles of the file lose their directory entry
UnlinkHandles(thr, f) ==
    [t \in Threads |->
        IF thr[t].pc \in {"rf_write", "rg_write"} /\ thr[t].id = f
        THEN [thr[t] EXCEPT !.linked = FALSE]
        ELSE thr[t]]

\* refresh_instance is called: `if not filepath.exists(): return False`
RefreshEnter(t, i) ==
    /\ OwnPid \in alive
    /\ th[t] = Idle
    /\ IF Exists(store[InstanceFile(i)])
       THEN /\ th' = [th EXCEPT ![t] = [pc |-> "rf_read", op |-> "refresh", id |-> i]]
            /\ UNCHANGED lastOp
       ELSE /\ lastOp' = [op |-> "refresh", id |-> i, by |-> t, ret |-> FALSE]
            /\ UNCHANGED th
    /\ UNCHANGED <<store, now, alive, osBusy, hbMax, plugin>>

\* RefreshEnter in a thread that is no heartbeat thread
CallRefresh(t, i) == RefreshEnter(t, i) /\ UNCHANGED hb

\* refresh_instance: open(filepath, "r"), json.load; an error returns False
RefreshLoad(t) ==
    /\ OwnPid \in alive
    /\ th[t].pc = "rf_read"
    /\ IF Parsable(store[InstanceFile(th[t].id)])
       THEN /\ th' = [th EXCEPT ![t] = [pc |-> "rf_time", op |-> "refresh", id |-> th[t].id,
                                        data |-> store[InstanceFile(th[t].id)]]]
            /\ UNCHANGED lastOp
       ELSE /\ lastOp' = [op |-> "refresh", id |-> th[t].id, by |-> t, ret |-> FALSE]
            /\ th' = [th EXCEPT ![t] = Idle]
    /\ UNCHANGED <<store, now, alive, osBusy, hbMax, plugin>>

\* RefreshLoad in a thread that is no heartbeat thread
RefreshRead(t) == RefreshLoad(t) /\ UNCHANGED hb

\* refresh_instance: data["timestamp"] = time.time()
RefreshStamp(t) ==
    /\ OwnPid \in alive
    /\ th[t].pc = "rf_time"
    /\ th' = [th EXCEPT ![t] = [pc |-> "rf_openw", op |-> "refresh", id |-> th[t].id,
                                 data |-> RefreshData(th[t].data, now)]]
    /\ UNCHANGED <<store, now, alive, osBusy, lastOp, hbMax, plugin>>

\* RefreshStamp in a thread that is no heartbeat thread
RefreshTime(t) == RefreshStamp(t) /\ UNCHANGED hb

\* register_instance is called: the InstanceInfo is built with time.time()
CallRegister(t, i, a) ==
    /\ OwnPid \in alive
    /\ th[t] = Idle
    /\ th' = [th EXCEPT ![t] = [pc |-> "rg_openw", op |-> "register", id |-> i,
                                 data |-> ToDict(RegisterInfo(i, a, OwnPid, now))]]
    /\ UNCHANGED <<store, now, alive, osBusy, lastOp, hbMax, hb, plugin>>

\* refresh_instance / register_instance: open(filepath, "w") creates or empties the file
OpenTruncate(t) ==
    /\ OwnPid \in alive
    /\ th[t].pc \in {"rf_openw", "rg_openw"}
    /\ store' = [store EXCEPT ![InstanceFile(th[t].id)] = Truncated]
    /\ th' = [th EXCEPT ![t] =
                [pc |-> IF th[t].op = "refresh" THEN "rf_write" ELSE "rg_write",
                 op |-> th[t].op, id |-> th[t].id, data |-> th[t].data, linked |-> TRUE]]
    /\ UNCHANGED <<now, alive, osBusy, lastOp, hbMax, plugin>>

\* OpenTruncate in a thread that is no heartbeat thread
OpenW(t) == OpenTruncate(t) /\ UNCHANGED hb

\* refresh_instance / register_instance: json.dump and close, then return
DumpClose(t) ==
    /\ OwnPid \in alive
    /\ th[t].pc \in {"rf_write", "rg_write"}
    /\ IF th[t].linked
       THEN /\ store' = [store EXCEPT ![InstanceFile(th[t].id)] = th[t].data]
            /\ hbMax' = [hbMax EXCEPT ![th[t].id] = Max(@, th[t].data.timestamp)]
       ELSE UNCHANGED <<store, hbMax>>
    /\ lastOp' = [op |-> th[t].op, id |-> th[t].id, by |-> t,
                  ret |-> IF th[t].op = "refresh" THEN TRUE ELSE FromDict(th[t].data),
                  \* the unregister_instance call that returned last before this one, if any
                  prev |-> IF lastOp.op = "unregister" THEN lastOp ELSE None]
    /\ th' = [th EXCEPT ![t] = Idle]
    /\ UNCHANGED <<now, alive, osBusy, plugin>>

\* DumpClose in a thread that is no heartbeat thread
WriteClose(t) == DumpClose(t) /\ UNCHANGED hb

\* list_instances with include_stale=False (op "list"), find_instance_by_binary
\* (op "find_by_binary") or cleanup_stale_instances (op "cleanup") is called:
\* glob the directory
CallScan(t, op, name) ==
    /\ OwnPid \in alive
    /\ th[t] = Idle
    /\ th' = [th EXCEPT ![t] = [pc |-> "ls_next", op |-> op, name |-> name,
                                 todo |-> Glob(store), result |-> <<>>, removed |-> 0]]
    /\ UNCHANGED <<store, now, alive, osBusy, lastOp, hbMax, hb, plugin>>

\* the scan loop: open and json.load the next file glob yielded
ScanRead(t) ==
    /\ OwnPid \in alive
    /\ th[t].pc = "ls_next"
    /\ \E f \in th[t].todo :
          th' = [th EXCEPT ![t] =
                   IF Parsable(store[f])
                   THEN [pc |-> "ls_check", op |-> th[t].op, name |-> th[t].name,
                         todo |-> th[t].todo \ {f}, result |-> th[t].result,
                         removed |-> th[t].removed, cur |-> f, info |-> FromDict(store[f])]
                   ELSE [pc |-> "ls_except", op |-> th[t].op, name |-> th[t].name,
                         todo |-> th[t].todo \ {f}, result |-> th[t].result,
                         removed |-> th[t].removed, cur |-> f]]
    /\ UNCHANGED <<store, now, alive, osBusy, lastOp, hbMax, hb, plugin>>

\* the scan loop: info.is_stale() and not info.is_alive()
ScanCheck(t) ==
    /\ OwnPid \in alive
    /\ th[t].pc = "ls_check"
    /\ th' = [th EXCEPT ![t] =
                IF ListReaps(th[t].info, FALSE, now, alive)
                THEN [pc |-> "ls_unlink", op |-> th[t].op, name |-> th[t].name,
                      todo |-> th[t].todo, result |-> th[t].result,
                      removed |-> th[t].removed, cur |-> th[t].cur]
                ELSE [pc |-> "ls_next", op |-> th[t].op, name |-> th[t].name,
                      todo |-> th[t].todo,
                      result |-> IF th[t].op = "cleanup" THEN th[t].result
                                 ELSE Append(th[t].result, th[t].info),
                      removed |-> th[t].removed]]
    /\ UNCHANGED <<store, now, alive, osBusy, lastOp, hbMax, hb, plugin>>

\* the scan loop: filepath.unlink(missing_ok=True), of a stale registration
\* of a dead owner or in the except clause; cleanup counts it
ScanUnlink(t) ==
    /\ OwnPid \in alive
    /\ th[t].pc \in {"ls_unlink", "ls_except"}
    /\ store' = [store EXCEPT ![th[t].cur] = NoFile]
    /\ hbMax' = [hbMax EXCEPT ![th[t].cur] = 0]
    /\ th' = [UnlinkHandles(th, th[t].cur) EXCEPT ![t] =
                [pc |-> "ls_next", op |-> th[t].op, name |-> th[t].name,
                 todo |-> th[t].todo, result |-> th[t].result,
                 removed |-> IF th[t].op = "cleanup" THEN th[t].removed + 1
                             ELSE th[t].removed]]
    /\ UNCHANGED <<now, alive, osBusy, lastOp, hb, plugin>>

\* the scan loop is over: return
ScanReturn(t) ==
    /\ OwnPid \in alive
    /\ th[t].pc = "ls_next"
    /\ th[t].todo = {}
    /\ lastOp' = [op |-> th[t].op, by |-> t,
                  ret |-> CASE th[t].op = "list" -> th[t].result
                            [] th[t].op = "find_by_binary" ->
                                   FindByBinary(th[t].result, th[t].name)
                            [] OTHER -> th[t].removed]
    /\ th' = [th EXCEPT ![t] = Idle]
    /\ UNCHANGED <<store, now, alive, osBusy, hbMax, hb, plugin>>

\* time passes while calls are in progress
ConcTick ==
    /\ TickCount(now) < MaxTicks
    /\ \E d \in {1, STALE_TIMEOUT} : now' = now + d
    /\ UNCHANGED <<store, alive, osBusy, lastOp, th, hbMax, hb, plugin>>

\* a process exits while calls are in progress
ConcKill ==
    /\ \E p \in alive : alive' = alive \ {p}
    /\ UNCHANGED <<store, now, osBusy, lastOp, th, hbMax, hb, plugin>>

(***************************************************************************)
(* SpecLookup: the heartbeat thread refreshes the process's registration   *)
(* while another thread of the process looks instances up                  *)
(***************************************************************************)
HeartbeatThread == "t1"
LookupThread == "t2"

NextLookup ==
    \/ ConcTick
    \/ ConcKill
    \/ CallRefresh(HeartbeatThread, HeartbeatId)
    \/ RefreshRead(HeartbeatThread)
    \/ RefreshTime(HeartbeatThread)
    \/ OpenW(HeartbeatThread)
    \/ WriteClose(HeartbeatThread)
    \/ \E op \in {"list", "cleanup"} : CallScan(LookupThread, op, <<>>)
    \/ \E name \in QueryNames : CallScan(LookupThread, "find_by_binary", name)
    \/ ScanRead(LookupThread)
    \/ ScanCheck(LookupThread)
    \/ ScanUnlink(LookupThread)
    \/ ScanReturn(LookupThread)

SpecLookup == ConcInit /\ [][NextLookup]_vars

(***************************************************************************)
(* SpecWriters: two threads of the process refresh and re-register its     *)
(* registration                                                            *)
(***************************************************************************)
NextWriters ==
    \/ ConcTick
    \/ \E t \in Threads :
          \/ CallRefresh(t, HeartbeatId)
          \/ RefreshRead(t)
          \/ RefreshTime(t)
          \/ \E a \in RegArgs : CallRegister(t, HeartbeatId, a)
          \/ OpenW(t)
          \/ WriteClose(t)

SpecWriters == ConcInit /\ [][NextWriters]_vars

(***************************************************************************)
(* SpecUnregister: the heartbeat thread refreshes the registration while   *)
(* the main thread unregisters it                                          *)
(***************************************************************************)
\* unregister_instance called by thread t: one unlink
ConcUnregister(t, i) ==
    /\ OwnPid \in alive
    /\ th[t] = Idle
    /\ store' = UnregisterStore(store, i)
    /\ hbMax' = [hbMax EXCEPT ![i] = 0]
    /\ th' = UnlinkHandles(th, InstanceFile(i))
    /\ lastOp' = [op |-> "unregister", id |-> i, by |-> t, ret |-> TRUE]
    /\ UNCHANGED <<now, alive, osBusy, hb, plugin>>

NextUnregister ==
    \/ ConcTick
    \/ CallRefresh(HeartbeatThread, HeartbeatId)
    \/ RefreshRead(HeartbeatThread)
    \/ RefreshTime(HeartbeatThread)
    \/ OpenW(HeartbeatThread)
    \/ WriteClose(HeartbeatThread)
    \/ ConcUnregister(LookupThread, HeartbeatId)

SpecUnregister == ConcInit /\ [][NextUnregister]_vars

(***************************************************************************)
(* SpecReapers: two threads of the process scan the directory at once      *)
(* (cleanup_stale_instances, list_instances) and nothing writes to it      *)
(***************************************************************************)
NextReapers ==
    \/ ConcTick
    \/ ConcKill
    \/ \E t \in Threads :
          \/ \E op \in {"list", "cleanup"} : CallScan(t, op, <<>>)
          \/ ScanRead(t)
          \/ ScanCheck(t)
          \/ ScanUnlink(t)
          \/ ScanReturn(t)

SpecReapers == ConcInit /\ [][NextReapers]_vars

\* the local variable `removed` of the cleanup_stale_instances call thread t is in
RemovedSoFar(t) == IF th[t] # Idle /\ th[t].op = "cleanup" THEN th[t].removed ELSE 0

(***************************************************************************)
(* Storage failures: register_instance and refresh_instance with an        *)
(* OSError raised at one of their I/O steps                                *)
(***************************************************************************)
OSError == [kind |-> "OSError"]

\* the I/O steps of register_instance at which the system may fail
RegisterFaults == {"none", "mkdir", "open", "write"}

\* the I/O steps of refresh_instance (after the exists check) at which the
\* system may fail
RefreshFaults == {"none", "read", "open", "write"}

\* register_instance: no try/except, an OSError leaves the function
RegisterIO ==
    \E p \in alive, i \in Ids, a \in RegArgs, fault \in RegisterFaults :
        /\ store' = CASE fault = "none" -> RegisterStore(store, i, a, p, now)
                      [] fault = "write" -> [store EXCEPT ![InstanceFile(i)] = Truncated]
                      [] OTHER -> store
        /\ lastOp' = [op |-> "register", id |-> i, fault |-> fault,
                      outcome |-> IF fault = "none" THEN "return" ELSE "raise",
                      ret |-> IF fault = "none" THEN RegisterInfo(i, a, p, now) ELSE OSError]
        /\ UNCHANGED <<now, alive, osBusy, th, hbMax, hb, plugin>>

\* refresh_instance: except (json.JSONDecodeError, OSError, KeyError): return False
RefreshIO ==
    \E i \in Ids, f \in RefreshFaults :
        LET cur == store[InstanceFile(i)]
            \* the failure happens only if the call gets to that step
            fault == IF ~Exists(cur) THEN "none"
                     ELSE IF f = "read" THEN f
                     ELSE IF ~Parsable(cur) THEN "none"
                     ELSE f
        IN  /\ store' = CASE fault = "none" -> RefreshStore(store, i, now)
                          [] fault = "write" -> [store EXCEPT ![InstanceFile(i)] = Truncated]
                          [] OTHER -> store
            /\ lastOp' = [op |-> "refresh", id |-> i, fault |-> fault,
                          outcome |-> "return",
                          ret |-> IF fault = "none" THEN RefreshRet(store, i) ELSE FALSE]
            /\ UNCHANGED <<now, alive, osBusy, th, hbMax, hb, plugin>>

NextFaults == Tick \/ Kill \/ RegisterIO \/ RefreshIO \/ Unregister

SpecFaults == Init /\ [][NextFaults]_vars

(***************************************************************************)
(* SpecCorrupt: the atomic registry functions over a directory that may    *)
(* hold files that do not parse                                            *)
(***************************************************************************)
\* valid JSON without a required key: InstanceInfo.from_dict raises KeyError
MissingKey == [kind |-> "missingkey"]

\* a registration file is left empty by a writer that died after
\* open(filepath, "w"), or is written without a required key by another program
CorruptFile ==
    \E i \in Ids, c \in {Truncated, MissingKey} :
        /\ store' = [store EXCEPT ![i] = c]
        /\ lastOp' = [op |-> "corrupt", id |-> i]
        /\ UNCHANGED <<now, alive, osBusy, th, hbMax, hb, plugin>>

NextCorrupt ==
    \/ Tick
    \/ Kill
    \/ Register
    \/ CorruptFile
    \/ FindId
    \/ List
    \/ Cleanup

SpecCorrupt == Init /\ [][NextCorrupt]_vars

(***************************************************************************)
(* SpecEnum: list_instances and cleanup_stale_instances over a directory   *)
(* that may hold any kind of file that is no registration; an exception    *)
(* their `except (json.JSONDecodeError, KeyError, OSError)` does not name  *)
(* ends the loop and leaves the function                                   *)
(***************************************************************************)
\* bytes that are not UTF-8: json.load raises UnicodeDecodeError
NotUtf8 == [kind |-> "notutf8"]

\* valid JSON that is no object (null, a number, a list): data["instance_id"]
\* in InstanceInfo.from_dict raises TypeError
NotObject == [kind |-> "notobject"]

\* the files that are no registration
CorruptKinds == {Truncated, MissingKey, NotUtf8, NotObject}

\* reading the file raises an exception the except clause does not catch
Raises(f) == f.kind \in {"notutf8", "notobject"}

\* the exception reading the file raises
Raised(f) == [kind |-> IF f.kind = "notutf8" THEN "UnicodeDecodeError" ELSE "TypeError"]

\* the position in glob's order of the first file whose reading raises, or one
\* past the end
FirstRaising(st, order) ==
    LET R == {k \in 1..Len(order) : Raises(st[order[k]])}
    IN IF R = {} THEN Len(order) + 1 ELSE CHOOSE k \in R : \A j \in R : k <= j

\* the files the loop has passed when it ends
Passed(st, order) == {order[k] : k \in 1..(FirstRaising(st, order) - 1)}

\* another program leaves a file that is no registration in the directory
CorruptAny ==
    \E i \in Ids, c \in CorruptKinds :
        /\ store' = [store EXCEPT ![i] = c]
        /\ lastOp' = [op |-> "corrupt", id |-> i]
        /\ UNCHANGED <<now, alive, osBusy, th, hbMax, hb, plugin>>

\* list_instances
ListScan ==
    \E include_stale \in BOOLEAN, order \in Orders(Glob(store)) :
        LET raising == FirstRaising(store, order) <= Len(order)
        IN  /\ store' = [i \in Ids |->
                            IF i \in Passed(store, order)
                            THEN ListStore(store, include_stale, now, alive)[i]
                            ELSE store[i]]
            /\ lastOp' = [op |-> "list", include_stale |-> include_stale,
                          corrupt |-> {i \in Glob(store) : ~Parsable(store[i])},
                          outcome |-> IF raising THEN "raise" ELSE "return",
                          ret |-> IF raising
                                  THEN Raised(store[order[FirstRaising(store, order)]])
                                  ELSE ListResult(store, order, include_stale, now, alive)]
            /\ UNCHANGED <<now, alive, osBusy, th, hbMax, hb, plugin>>

\* cleanup_stale_instances
CleanupScan ==
    \E order \in Orders(Glob(store)) :
        LET raising == FirstRaising(store, order) <= Len(order)
        IN  /\ store' = [i \in Ids |->
                            IF i \in Passed(store, order)
                            THEN CleanupStore(store, now, alive)[i]
                            ELSE store[i]]
            /\ lastOp' = [op |-> "cleanup",
                          corrupt |-> {i \in Glob(store) : ~Parsable(store[i])},
                          outcome |-> IF raising THEN "raise" ELSE "return",
                          ret |-> IF raising
                                  THEN Raised(store[order[FirstRaising(store, order)]])
                                  ELSE Cardinality(CleanupRemoves(store, now, alive)
                                                     \cap Passed(store, order))]
            /\ UNCHANGED <<now, alive, osBusy, th, hbMax, hb, plugin>>

NextEnum == Tick \/ Kill \/ Register \/ CorruptAny \/ ListScan \/ CleanupScan

SpecEnum == Init /\ [][NextEnum]_vars

(***************************************************************************)
(* SpecHeartbeat: the HeartbeatThread object of the process.  The main     *)
(* thread calls start() and stop(); the threads start() creates run _run,  *)
(* whose refresh_instance call takes the file-system steps above; the      *)
(* registration may be unlinked at any moment.                             *)
(***************************************************************************)
HEARTBEAT_INTERVAL == 30

\* self._thread.join(timeout=5)
JOIN_TIMEOUT == 5

\* the threads start() has created so far
Started(h) == {t \in Threads : h.task[t] # "unborn"}

\* Mutant of StartThread: start() clears the stop event
StartThread_Rearmed(h, t) ==
    [h EXCEPT !.thread = t, !.task[t] = "check", !.late[t] = h.stop_event,
              !.stop_event = FALSE]

\* self._thread = threading.Thread(target=self._run, daemon=True); self._thread.start()
StartThread(h, t) ==
    [h EXCEPT !.thread = t, !.task[t] = "check", !.late[t] = h.stop_event]

\* Mutant of HbStart: no `if self._thread is not None: return`
HbStart_Unguarded ==
    /\ ~hb.joining
    /\ \E t \in Threads :
          /\ hb.task[t] = "unborn"
          /\ th[t] = Idle
          /\ hb' = StartThread(hb, t)
    /\ lastOp' = [op |-> "hb_start", before |-> hb.thread, handle |-> hb'.thread,
                  tasks_before |-> Cardinality(Started(hb)),
                  tasks |-> Cardinality(Started(hb'))]
    /\ UNCHANGED <<store, now, alive, osBusy, th, hbMax, plugin>>

\* HeartbeatThread.start
HbStart ==
    /\ ~hb.joining
    /\ IF hb.thread # NoThread
       THEN hb' = hb
       ELSE \E t \in Threads :
               /\ hb.task[t] = "unborn"
               /\ th[t] = Idle
               /\ hb' = StartThread(hb, t)
    /\ lastOp' = [op |-> "hb_start", before |-> hb.thread, handle |-> hb'.thread,
                  tasks_before |-> Cardinality(Started(hb)),
                  tasks |-> Cardinality(Started(hb'))]
    /\ UNCHANGED <<store, now, alive, osBusy, th, hbMax, plugin>>

\* HeartbeatThread.stop at time t: self._stop_event.set(), and the join begins
\* if there is a thread
StopSet(h, t) ==
    [h EXCEPT !.stop_event = TRUE,
              !.asleep = IF h.stop_event THEN @
                         ELSE [u \in Threads |-> h.task[u] = "wait"],
              !.joining = (h.thread # NoThread),
              !.join_since = t,
              !.stopped = (@ \/ h.thread = NoThread)]

\* self._thread.join(timeout=5) returns at time t: the thread has ended or
\* JOIN_TIMEOUT seconds have passed
JoinOver(h, t) ==
    /\ h.joining
    /\ \/ h.task[h.thread] = "exited"
       \/ t - h.join_since >= JOIN_TIMEOUT

\* HeartbeatThread.stop after the join: self._thread = None
Joined(h) == [h EXCEPT !.joining = FALSE, !.thread = NoThread, !.stopped = TRUE]

\* HeartbeatThread.stop: self._stop_event.set(); with no thread the call returns,
\* otherwise it goes on to join
HbStopSet ==
    /\ ~hb.joining
    /\ hb' = StopSet(hb, now)
    /\ IF hb.thread = NoThread
       THEN lastOp' = [op |-> "hb_stop", joined |-> NoThread, timed_out |-> FALSE]
       ELSE UNCHANGED lastOp
    /\ UNCHANGED <<store, now, alive, osBusy, th, hbMax, plugin>>

\* HeartbeatThread.stop: join returns when the thread has ended or after
\* JOIN_TIMEOUT seconds; self._thread = None
HbStopJoin ==
    /\ JoinOver(hb, now)
    /\ hb' = Joined(hb)
    /\ lastOp' = [op |-> "hb_stop", joined |-> hb.thread,
                  timed_out |-> hb.task[hb.thread] # "exited"]
    /\ UNCHANGED <<store, now, alive, osBusy, th, hbMax, plugin>>

\* Mutant of HbLoop: the loop does not test the stop event
HbLoop_NoCheck(t) ==
    /\ hb.task[t] = "check"
    /\ hb' = [hb EXCEPT !.task[t] = "refresh"]
    /\ UNCHANGED <<store, now, alive, osBusy, lastOp, th, hbMax, plugin>>

\* _run: `while not self._stop_event.is_set()`
HbLoop(t) ==
    /\ hb.task[t] = "check"
    /\ hb' = [hb EXCEPT !.task[t] = IF hb.stop_event THEN "exited" ELSE "refresh"]
    /\ UNCHANGED <<store, now, alive, osBusy, lastOp, th, hbMax, plugin>>

\* _run: refresh_instance(self.instance_id), one file-system step of it; when the
\* call has returned the thread enters self._stop_event.wait
HbRefresh(t) ==
    /\ \/ hb.task[t] = "refresh" /\ RefreshEnter(t, HeartbeatId)
       \/ hb.task[t] = "in_refresh" /\ RefreshLoad(t)
       \/ hb.task[t] = "in_refresh" /\ RefreshStamp(t)
       \/ hb.task[t] = "in_refresh" /\ OpenTruncate(t)
       \/ hb.task[t] = "in_refresh" /\ DumpClose(t)
    /\ hb' = [hb EXCEPT !.task[t] = IF th'[t] = Idle THEN "wait" ELSE "in_refresh",
                        !.since[t] = IF th'[t] = Idle THEN now ELSE @,
                        !.after[t] = IF hb.task[t] = "refresh" /\ hb.stop_event
                                     THEN @ + 1 ELSE @,
                        !.gone[t] = IF hb.task[t] = "refresh" THEN hb.deleted ELSE @]

\* _run: self._stop_event.wait(timeout=HEARTBEAT_INTERVAL) returns when the event
\* is set or the interval is over
HbWake(t) ==
    /\ hb.task[t] = "wait"
    /\ hb.stop_event \/ now - hb.since[t] >= HEARTBEAT_INTERVAL
    /\ hb' = [hb EXCEPT !.task[t] = "check"]
    /\ UNCHANGED <<store, now, alive, osBusy, lastOp, th, hbMax, plugin>>

\* unregister_instance(HeartbeatId), called while the heartbeat may be running
HbUnregister ==
    /\ store' = UnregisterStore(store, HeartbeatId)
    /\ hbMax' = [hbMax EXCEPT ![HeartbeatId] = 0]
    /\ th' = UnlinkHandles(th, InstanceFile(HeartbeatId))
    /\ hb' = [hb EXCEPT !.deleted = TRUE]
    /\ lastOp' = [op |-> "unregister", id |-> HeartbeatId, ret |-> TRUE]
    /\ UNCHANGED <<now, alive, osBusy, plugin>>

NextHeartbeat ==
    \/ ConcTick
    \/ HbStart
    \/ HbStopSet
    \/ HbStopJoin
    \/ HbUnregister
    \/ \E t \in Threads : HbLoop(t) \/ HbRefresh(t) \/ HbWake(t)

SpecHeartbeat == ConcInit /\ [][NextHeartbeat]_vars

\* every started thread is scheduled again and again
FairHeartbeat ==
    /\ SpecHeartbeat
    /\ \A t \in Threads : WF_vars(HbLoop(t)) /\ WF_vars(HbRefresh(t)) /\ WF_vars(HbWake(t))

(***************************************************************************)
(* SpecPlugin: the plugin of the process (ida_mcp.py) starts its server,   *)
(* registers the instance and starts a heartbeat, and later stops: it      *)
(* stops the heartbeat, unregisters and stops the server.                  *)
(***************************************************************************)
\* _start_server: `self.port = 13337  # Fallback to default`
FALLBACK_PORT == 13337

\* os.environ.get("IDA_MCP_PORT"): 0 stands for unset
EnvPorts == {0, PORT_RANGE_START + 1}

\* MCP_SERVER.serve returns, raises OSError with an address-in-use errno
\* (48, 98, 10048), or raises another OSError
ServeOutcomes == {"ok", "in_use", "oserror"}

\* Mutant of RegisterArgs: the port chosen before the retry is registered
RegisterArgs_FirstPort(a, first_port, port) ==
    [a EXCEPT !.host = "127.0.0.1", !.port = first_port]

\* _register_instance: register_instance(host=self.HOST, port=self.port, ...)
\* with the binary name and path of a; first_port is the port of the first
\* serve call, port the value of self.port now
RegisterArgs(a, first_port, port) ==
    [a EXCEPT !.host = "127.0.0.1", !.port = port]

\* _start_server followed by _register_instance, as called by run() while
\* self.mcp is None
PluginStart ==
    /\ OwnPid \in alive
    /\ plugin.pc = "loaded"
    /\ \E env \in EnvPorts, importable \in BOOLEAN, busy \in BusySets,
          serve1 \in ServeOutcomes, serve2 \in ServeOutcomes \ {"in_use"},
          fault \in RegisterFaults, a \in RegArgs, t \in Threads,
          order \in Orders(Glob(store)) :
          LET listing == env = 0 /\ importable
              found == FindAvailablePortRet(ListResult(store, order, FALSE, now, alive), busy)
              st == IF listing THEN ListStore(store, FALSE, now, alive) ELSE store
              \* find_available_port cannot be imported or raises
              raised == env = 0 /\ (~importable \/ found.kind = "RuntimeError")
              first_port == IF env # 0 THEN env
                            ELSE IF raised THEN FALLBACK_PORT ELSE found.port
              retry == serve1 = "in_use" /\ env = 0
              port == IF retry THEN first_port + 1 ELSE first_port
              served == serve1 = "ok" \/ (retry /\ serve2 = "ok")
              \* register_instance is called, and fails at step regfault
              regfault == IF served /\ importable THEN fault ELSE "none"
              registered == served /\ importable /\ fault = "none"
              args == RegisterArgs(a, first_port, port)
              attempts == IF retry THEN 2 ELSE 1
              \* `except OSError as e`: an errno other than address-in-use is
              \* raised again; the handler of the second attempt swallows it
              outcome == IF serve1 = "oserror" \/ (serve1 = "ok" /\ regfault # "none")
                         THEN "raise" ELSE "return"
          IN  /\ th[t] = Idle
              /\ hb.task[t] = "unborn"
              /\ store' = CASE registered -> RegisterStore(st, HeartbeatId, args, OwnPid, now)
                            [] regfault = "write" ->
                                   [st EXCEPT ![InstanceFile(HeartbeatId)] = Truncated]
                            [] OTHER -> st
              /\ hb' = IF registered THEN StartThread(NewHeartbeat, t) ELSE hb
              /\ plugin' = [pc |-> IF served THEN "running" ELSE "loaded",
                            mcp |-> served, port |-> port,
                            heartbeat |-> registered, registry |-> importable]
              /\ lastOp' = [op |-> "plugin_start", env |-> env, raised |-> raised,
                            first_port |-> first_port, port |-> port,
                            serve1 |-> serve1, attempts |-> attempts,
                            served |-> served, importable |-> importable,
                            regfault |-> regfault, outcome |-> outcome]
    /\ UNCHANGED <<now, alive, osBusy, th, hbMax>>

\* run() while self.mcp is set: _stop_server, _unregister_instance:
\* `if self.heartbeat: self.heartbeat.stop()`, up to the join
PluginStopHeartbeat ==
    /\ OwnPid \in alive
    /\ plugin.pc = "running"
    /\ IF plugin.heartbeat
       THEN /\ hb' = StopSet(hb, now)
            /\ plugin' = [plugin EXCEPT !.pc = "join"]
       ELSE /\ plugin' = [plugin EXCEPT !.pc = "unregister"]
            /\ UNCHANGED hb
    /\ UNCHANGED <<store, now, alive, osBusy, lastOp, th, hbMax>>

\* _unregister_instance: the join is over, stop() returns, self.heartbeat = None
PluginJoin ==
    /\ OwnPid \in alive
    /\ plugin.pc = "join"
    /\ JoinOver(hb, now)
    /\ hb' = Joined(hb)
    /\ plugin' = [plugin EXCEPT !.pc = "unregister", !.heartbeat = FALSE]
    /\ lastOp' = [op |-> "hb_stop", joined |-> hb.thread,
                  timed_out |-> hb.task[hb.thread] # "exited"]
    /\ UNCHANGED <<store, now, alive, osBusy, th, hbMax>>

\* _unregister_instance: unregister_instance(self.instance_id), unless the
\* registry cannot be imported
PluginUnregister ==
    /\ OwnPid \in alive
    /\ plugin.pc = "unregister"
    /\ IF plugin.registry
       THEN /\ store' = UnregisterStore(store, HeartbeatId)
            /\ hbMax' = [hbMax EXCEPT ![HeartbeatId] = 0]
            /\ th' = UnlinkHandles(th, InstanceFile(HeartbeatId))
            /\ lastOp' = [op |-> "unregister", id |-> HeartbeatId, ret |-> TRUE]
       ELSE UNCHANGED <<store, hbMax, th, lastOp>>
    /\ plugin' = [plugin EXCEPT !.pc = "stop_mcp"]
    /\ UNCHANGED <<now, alive, osBusy, hb>>

\* _stop_server: `if self.mcp: self.mcp.stop(); self.mcp = None`
PluginStopServer ==
    /\ OwnPid \in alive
    /\ plugin.pc = "stop_mcp"
    /\ plugin' = [plugin EXCEPT !.pc = "stopped", !.mcp = FALSE]
    /\ lastOp' = [op |-> "plugin_stop"]
    /\ UNCHANGED <<store, now, alive, osBusy, th, hbMax, hb>>

NextPlugin ==
    \/ ConcTick
    \/ PluginStart
    \/ PluginStopHeartbeat
    \/ PluginJoin
    \/ PluginUnregister
    \/ PluginStopServer
    \/ \E t \in Threads : HbLoop(t) \/ HbRefresh(t) \/ HbWake(t)

SpecPlugin == Init /\ [][NextPlugin]_vars

(***************************************************************************)
(* Properties of the atomic registry functions (checked under Spec)        *)
(***************************************************************************)
\* the parsed registrations currently in the directory
Records(st) == {FromDict(st[i]) : i \in {j \in Ids : Parsable(st[j])}}

\* the elements of a sequence
Range(seq) == {seq[k] : k \in DOMAIN seq}

\* C1: list_instances(include_stale=False) and cleanup_stale_instances delete
\* a registration present at the call if and only if it is stale and its
\* owner is dead; a stale registration of a live owner is kept and listed;
\* a fresh registration is never deleted.
C1_ReapDualCondition ==
    [][ (lastOp'.op = "cleanup" \/ (lastOp'.op = "list" /\ ~lastOp'.include_stale)) =>
          \A i \in Ids : Parsable(store[i]) =>
              /\ (store'[i] = NoFile) <=>
                     ((now - store[i].timestamp > STALE_TIMEOUT) /\ store[i].pid \notin alive)
              /\ (store'[i] # NoFile) => (store'[i] = store[i])
              /\ (lastOp'.op = "list" /\ store'[i] # NoFile) =>
                     (FromDict(store[i]) \in Range(lastOp'.ret)) ]_vars

\* cleanup removed one stale registration of a dead owner and kept a stale
\* registration of a live owner
C1_Witness ==
    /\ lastOp.op = "cleanup"
    /\ lastOp.ret = 1
    /\ \E i \in Ids : /\ Parsable(store[i])
                       /\ now - store[i].timestamp > STALE_TIMEOUT
                       /\ store[i].pid \in alive

\* C3: find_instance_by_id directly after register_instance of the same id
\* returns the registered instance_id, host, port, binary_name, binary_path
\* and the caller's pid, with a timestamp not before the register call.
C3_RoundTrip ==
    (lastOp.op = "find_by_id" /\ lastOp.prev # None) =>
        /\ lastOp.ret # None
        /\ lastOp.ret.instance_id = lastOp.prev.id
        /\ lastOp.ret.host = lastOp.prev.args.host
        /\ lastOp.ret.port = lastOp.prev.args.port
        /\ lastOp.ret.binary_name = lastOp.prev.args.binary_name
        /\ lastOp.ret.binary_path = lastOp.prev.args.binary_path
        /\ lastOp.ret.pid = lastOp.prev.caller
        /\ lastOp.ret.timestamp >= lastOp.prev.t

\* a registration with a non-empty path was read back at a later clock value
C3_Witness ==
    /\ lastOp.op = "find_by_id"
    /\ lastOp.prev # None
    /\ lastOp.ret # None
    /\ lastOp.prev.args.binary_path # ""
    /\ lastOp.prev.t > 0

\* C4: every registration file holds the instance_id it is named after (one
\* record per id); register_instance adds exactly the file of its id, so N
\* distinct ids give N files and re-registering overwrites with the latest
\* fields; list_instances returns one entry per file, with distinct ids.
C4_Uniqueness ==
    [][ /\ \A i \in Ids : Parsable(store'[i]) => store'[i].instance_id = i
        /\ lastOp'.op = "register" =>
              /\ Glob(store') = Glob(store) \cup {lastOp'.id}
              /\ \A j \in Ids \ {lastOp'.id} : store'[j] = store[j]
              /\ FromDict(store'[lastOp'.id]) =
                    InstanceInfo(lastOp'.id, lastOp'.args.host, lastOp'.args.port,
                                 lastOp'.args.binary_name, lastOp'.args.binary_path,
                                 lastOp'.caller, lastOp'.t)
        /\ lastOp'.op = "list" =>
              /\ Len(lastOp'.ret) = Cardinality(Glob(store'))
              /\ {r.instance_id : r \in Range(lastOp'.ret)} = Glob(store')
              /\ \A j, k \in DOMAIN lastOp'.ret :
                    lastOp'.ret[j].instance_id = lastOp'.ret[k].instance_id => j = k ]_vars

\* an existing id was registered again with other fields while another id
\* is registered too
C4_Witness ==
    /\ lastOp.op = "register"
    /\ Glob(store) = Ids
    /\ lastOp.t > 0
    /\ \E i \in Ids \ {lastOp.id} : store[i].timestamp < lastOp.t

C6_RefreshFrame ==
    [][ lastOp'.op = "refresh" =>
          /\ \A j \in Ids \ {lastOp'.id} : store'[j] = store[j]
          /\ Parsable(store[lastOp'.id]) =>
                /\ lastOp'.ret = TRUE
                /\ Parsable(store'[lastOp'.id])
                /\ [store'[lastOp'.id] EXCEPT !.timestamp = 0] =
                       [store[lastOp'.id] EXCEPT !.timestamp = 0]
          /\ ~Exists(store[lastOp'.id]) =>
                /\ lastOp'.ret = FALSE
                /\ store' = store ]_vars

\* a registration made earlier was refreshed to the current time
C6_Witness ==
    /\ lastOp.op = "refresh"
    /\ lastOp.ret = TRUE
    /\ now > 0
    /\ store[lastOp.id].timestamp = now
    /\ store[lastOp.id].binary_path # ""

\* C10: find_instance_by_binary returns a listed registration whose name
\* equals the query case-insensitively whenever one survives the listing,
\* and None exactly when none does; no stale registration of a dead owner
\* is returned or left behind.
C10_CaseInsensitiveLookup ==
    lastOp.op = "find_by_binary" =>
        LET hits == {r \in Records(store) :
                        StrLower(r.binary_name) = StrLower(lastOp.name)}
        IN /\ (hits # {}) => (lastOp.ret \in hits)
           /\ (hits = {}) => (lastOp.ret = None)
           /\ \A r \in Records(store) :
                 ~((now - r.timestamp > STALE_TIMEOUT) /\ r.pid \notin alive)

\* a query was answered with a registration whose name differs in case,
\* after a registration had been reaped
C10_Witness ==
    /\ lastOp.op = "find_by_binary"
    /\ lastOp.ret # None
    /\ lastOp.ret.binary_name # lastOp.name
    /\ now > STALE_TIMEOUT
    /\ \E i \in Ids : ~Exists(store[i])

\* C16: find_instance_by_id applies no liveness filter and has no side
\* effect on parsable registrations: it returns the registration stored under
\* the id even when it is stale and its owner is dead, and leaves every
\* parsable file as it was.
C16_FindByIdRaw ==
    [][ lastOp'.op = "find_by_id" =>
          /\ \A j \in Ids : Parsable(store[j]) => store'[j] = store[j]
          /\ Parsable(store[InstanceFile(lastOp'.id)]) =>
                lastOp'.ret = FromDict(store[InstanceFile(lastOp'.id)]) ]_vars

\* a stale registration of a dead owner was returned and is still stored
C16_Witness ==
    /\ lastOp.op = "find_by_id"
    /\ lastOp.ret # None
    /\ now - lastOp.ret.timestamp > STALE_TIMEOUT
    /\ lastOp.ret.pid \notin alive
    /\ Parsable(store[InstanceFile(lastOp.id)])

\* C22: the staleness threshold is strict: list_instances(include_stale=False)
\* and cleanup_stale_instances leave every registration whose age is at most
\* STALE_TIMEOUT as it is, whether or not its owner is alive, and list returns it.
C22_StrictThreshold ==
    [][ (lastOp'.op = "cleanup" \/ (lastOp'.op = "list" /\ ~lastOp'.include_stale)) =>
          \A i \in Ids :
              (Parsable(store[i]) /\ now - store[i].timestamp <= STALE_TIMEOUT) =>
                  /\ store'[i] = store[i]
                  /\ lastOp'.op = "list" => FromDict(store[i]) \in Range(lastOp'.ret) ]_vars

\* a reaping call has returned and a registration of a dead owner whose age is
\* exactly STALE_TIMEOUT is in the directory
C22_Witness ==
    /\ lastOp.op \in {"cleanup", "list"}
    /\ lastOp.op = "list" => ~lastOp.include_stale
    /\ \E i \in Ids : /\ Parsable(store[i])
                       /\ now - store[i].timestamp = STALE_TIMEOUT
                       /\ store[i].pid \notin alive

\* C24: list_instances(include_stale=True) reaps nothing: it returns exactly
\* the parsable registrations, those that are stale with a dead owner
\* included, and leaves every parsable registration file as it was.
C24_IncludeStaleReadsOnly ==
    [][ (lastOp'.op = "list" /\ lastOp'.include_stale) =>
          /\ \A i \in Ids : Parsable(store[i]) => store'[i] = store[i]
          /\ Range(lastOp'.ret) = Records(store)
          /\ Len(lastOp'.ret) = Cardinality({i \in Ids : Parsable(store[i])}) ]_vars

\* list_instances(include_stale=True) returned a stale registration of a dead
\* owner, and its file is still there
C24_Witness ==
    /\ lastOp.op = "list"
    /\ lastOp.include_stale
    /\ \E r \in Range(lastOp.ret) :
          /\ now - r.timestamp > STALE_TIMEOUT
          /\ r.pid \notin alive
          /\ r \in Records(store)

(***************************************************************************)
(* Properties of the port allocator (checked under SpecPort)               *)
(***************************************************************************)
\* C8: find_available_port never returns a port recorded by a registration
\* that survives the reaping of its snapshot (fresh, or stale with a live
\* owner), whatever host that registration names.
C8_PortExclusion ==
    (lastOp.op = "find_available_port" /\ lastOp.ret.kind = "port") =>
        \A r \in Records(store) : r.port # lastOp.ret.port

\* a port was returned past the first one, which a stale registration of a
\* live owner on another host records
C8_Witness ==
    /\ lastOp.op = "find_available_port"
    /\ lastOp.ret.kind = "port"
    /\ osBusy = {}
    /\ \E r \in Records(store) : /\ r.port = PORT_RANGE_START
                                  /\ r.host # lastOp.host
                                  /\ now - r.timestamp > STALE_TIMEOUT

\* C9: find_available_port returns the smallest port of
\* [PORT_RANGE_START, PORT_RANGE_END) that is neither registered nor refused
\* by bind, raises RuntimeError when there is none, and makes at most
\* PORT_RANGE_END - PORT_RANGE_START loop iterations and bind attempts.
C9_FirstFit ==
    lastOp.op = "find_available_port" =>
        LET free == {p \in PORT_RANGE_START..(PORT_RANGE_END - 1) :
                        /\ p \notin osBusy
                        /\ \A r \in Records(store) : r.port # p}
        IN /\ (free # {}) =>
                 /\ lastOp.ret.kind = "port"
                 /\ lastOp.ret.port \in free
                 /\ \A p \in free : lastOp.ret.port <= p
                 /\ PORT_RANGE_START <= lastOp.ret.port
                 /\ lastOp.ret.port < PORT_RANGE_END
           /\ (free = {}) => (lastOp.ret.kind = "RuntimeError")
           /\ lastOp.ret.scanned <= PORT_RANGE_END - PORT_RANGE_START
           /\ lastOp.ret.binds <= lastOp.ret.scanned

\* the whole range was scanned and refused: RuntimeError
C9_Witness ==
    /\ lastOp.op = "find_available_port"
    /\ lastOp.ret.kind = "RuntimeError"
    /\ lastOp.ret.scanned = PORT_RANGE_END - PORT_RANGE_START
    /\ Records(store) # {}

(***************************************************************************)
(* Properties of concurrent callers (checked under SpecLookup and          *)
(* SpecWriters)                                                            *)
(***************************************************************************)
\* C2: while its owner is alive, the registration the heartbeat thread
\* refreshes is never deleted by a concurrent list_instances,
\* find_instance_by_binary or cleanup_stale_instances, and once both calls
\* have returned its file exists and parses.
C2_LiveOwnerRecordKept ==
    (OwnPid \in alive) =>
        /\ Exists(store[InstanceFile(HeartbeatId)])
        /\ (\A t \in Threads : th[t] = Idle) => Parsable(store[InstanceFile(HeartbeatId)])

\* C7: the persisted timestamp of a registration is never smaller than a
\* timestamp persisted earlier in the same file, for every interleaving of
\* register_instance and refresh_instance calls under a non-decreasing clock.
C7_HeartbeatMonotone ==
    \A i \in Ids : Parsable(store[i]) => store[i].timestamp >= hbMax[i]

(***************************************************************************)
(* Properties of the registry functions over unparsable files (checked     *)
(* under SpecCorrupt)                                                      *)
(***************************************************************************)
\* C11: find_instance_by_id on a file that exists but does not parse (or
\* lacks a required key) returns None and deletes the file: whenever it
\* returned None, no file of that id is left.
C11_FindDeletesCorrupt ==
    (lastOp.op = "find_by_id" /\ lastOp.ret = None) =>
        ~Exists(store[InstanceFile(lastOp.id)])

(***************************************************************************)
(* Properties of refresh against unregister (checked under SpecUnregister) *)
(***************************************************************************)
\* C12: a registration unlinked by unregister_instance while a
\* refresh_instance of the same id is in progress is not recreated by that
\* refresh: once both calls have returned, no file of the id exists.
C12_DeletedNotRecreated ==
    ( /\ lastOp.op = "refresh"
      /\ lastOp.ret = TRUE
      /\ lastOp.prev # None
      /\ lastOp.prev.id = lastOp.id
      /\ \A t \in Threads : th[t] = Idle ) =>
        ~Exists(store[InstanceFile(lastOp.id)])

\* C17: a directory or file I/O failure during register_instance or
\* refresh_instance reaches the caller as an exception, never as a normal
\* return value.
C17_StorageErrorPropagated ==
    (lastOp.op \in {"register", "refresh"} /\ lastOp.fault # "none") =>
        lastOp.outcome = "raise"

\* C18: cleanup_stale_instances counts the entries it removed: the counts of
\* the calls in progress never add up to more than the number of files that
\* have left the directory (nothing creates files under SpecReapers).
C18_CountsRemovedEntries ==
    RemovedSoFar("t1") + RemovedSoFar("t2") <=
        Cardinality(Ids) - Cardinality(Glob(store))

(***************************************************************************)
(* Properties of the HeartbeatThread object (checked under SpecHeartbeat   *)
(* and FairHeartbeat)                                                      *)
(***************************************************************************)
\* C13: HeartbeatThread.start() called while a thread is running is a no-op:
\* the handle and the number of threads are what they were before the call,
\* and as long as stop() has not been called a started object has exactly
\* one thread.
C13_StartIdempotent ==
    /\ (lastOp.op = "hb_start" /\ lastOp.before # NoThread) =>
          /\ lastOp.handle = lastOp.before
          /\ lastOp.tasks = lastOp.tasks_before
    /\ (~hb.stop_event /\ hb.thread # NoThread) => Cardinality(Started(hb)) = 1

\* start() has returned from a call made while the thread was running
C13_Witness ==
    /\ lastOp.op = "hb_start"
    /\ lastOp.before # NoThread
    /\ ~hb.stop_event
    /\ hb.task[hb.thread] \in {"refresh", "in_refresh", "wait"}

\* C14: once stop() has set the stop event every started thread eventually
\* leaves _run; a thread that was in wait() when the event was set begins no
\* refresh_instance call any more, any thread begins at most one after the
\* event was set, and when stop() has returned self._thread is None.
C14_CooperativeCancel ==
    /\ [](\A t \in Threads : /\ hb.after[t] <= 1
                             /\ hb.asleep[t] => hb.after[t] = 0)
    /\ [](lastOp.op = "hb_stop" => hb.thread = NoThread /\ ~hb.joining)
    /\ \A t \in Threads :
          (hb.stop_event /\ hb.task[t] # "unborn") ~> (hb.task[t] = "exited")

\* stop() has joined a thread that was asleep when the event was set and that
\* left _run without another refresh
C14_Witness ==
    /\ lastOp.op = "hb_stop"
    /\ lastOp.joined # NoThread
    /\ ~lastOp.timed_out
    /\ hb.asleep[lastOp.joined]
    /\ hb.after[lastOp.joined] = 0
    /\ hb.task[lastOp.joined] = "exited"

\* C15: once the registration has been deleted, every refresh_instance call the
\* heartbeat thread begins afterwards returns False (and the thread goes on
\* to wait for the next interval).
C15_RefreshFailsOnceDeleted ==
    \A t \in Threads :
        ( /\ lastOp.op = "refresh"
          /\ lastOp.by = t
          /\ hb.task[t] = "wait"
          /\ hb.gone[t] ) => lastOp.ret = FALSE

(***************************************************************************)
(* Properties of the plugin's start and stop sequences (checked under      *)
(* SpecPlugin)                                                             *)
(***************************************************************************)
\* C19: when port allocation fails the plugin serves on FALLBACK_PORT first;
\* when registration fails (the registry cannot be imported, or
\* register_instance raises OSError) the server is left running and
\* _start_server returns without an exception; after a later stop the server
\* is stopped.
C19_DegradesToSingleInstance ==
    /\ lastOp.op = "plugin_start" =>
          /\ lastOp.raised => lastOp.first_port = FALLBACK_PORT
          /\ (lastOp.served /\ (~lastOp.importable \/ lastOp.regfault # "none")) =>
                (plugin.mcp /\ lastOp.outcome = "return")
    /\ plugin.pc = "stopped" => ~plugin.mcp

\* C20: after the plugin's stop sequence (stop the heartbeat, unregister, stop
\* the server) has completed, the registry holds no file for the instance,
\* whatever the heartbeat thread was doing.
C20_NoRecordAfterStop ==
    plugin.pc = "stopped" => ~Exists(store[InstanceFile(HeartbeatId)])

(***************************************************************************)
(* Properties of enumeration over files that are no registration (checked  *)
(* under SpecEnum)                                                         *)
(***************************************************************************)
\* C23: list_instances (either include_stale) and cleanup_stale_instances that
\* meet a file that cannot be parsed or lacks a required field return normally,
\* leave no such file in the directory, and list returns exactly the parsable
\* registrations it kept.
C23_CorruptHandledLocally ==
    (lastOp.op \in {"list", "cleanup"} /\ lastOp.corrupt # {}) =>
        /\ lastOp.outcome = "return"
        /\ \A i \in Ids : Exists(store[i]) => Parsable(store[i])
        /\ lastOp.op = "list" => Range(lastOp.ret) = Records(store)

(***************************************************************************)
(* Properties of the plugin's handling of a port in use (checked under     *)
(* SpecPlugin)                                                             *)
(***************************************************************************)
\* C21: when the first serve fails with address-in-use and IDA_MCP_PORT is
\* unset, the port is incremented by one and serve is called once more; with a
\* forced port there is no second call; when no serve succeeded no file is
\* written, no heartbeat exists and self.mcp is None; while the server runs the
\* port in the instance's registration is the port it serves on.
C21_PortInUseRetry ==
    /\ lastOp.op = "plugin_start" =>
          /\ (lastOp.serve1 = "in_use" /\ lastOp.env = 0) =>
                (lastOp.attempts = 2 /\ lastOp.port = lastOp.first_port + 1)
          /\ (lastOp.serve1 # "in_use" \/ lastOp.env # 0) =>
                (lastOp.attempts = 1 /\ lastOp.port = lastOp.first_port)
          /\ (lastOp.serve1 = "in_use" /\ lastOp.env # 0) => ~lastOp.served
          /\ ~lastOp.served => ~plugin.mcp
    /\ ~plugin.mcp /\ plugin.pc = "loaded" =>
          /\ ~Exists(store[InstanceFile(HeartbeatId)])
          /\ ~plugin.heartbeat
          /\ Started(hb) = {}
    /\ (plugin.mcp /\ Parsable(store[InstanceFile(HeartbeatId)])) =>
          store[InstanceFile(HeartbeatId)].port = plugin.port

\* the first serve found the port in use, the second succeeded and the
\* instance is registered with the incremented port
C21_Witness ==
    /\ lastOp.op = "plugin_start"
    /\ lastOp.serve1 = "in_use"
    /\ lastOp.env = 0
    /\ lastOp.served
    /\ plugin.mcp
    /\ Parsable(store[InstanceFile(HeartbeatId)])
    /\ store[InstanceFile(HeartbeatId)].port = lastOp.first_port + 1

====
